---- MODULE Spec2Model ----
(***************************************************************************)
(* Lens-profile evaluation engine of lenstronomy: the truncated singular   *)
(* isothermal sphere (SIS_truncate) and the elliptical slice of constant   *)
(* density (ElliSLICE).                                                    *)
(*                                                                         *)
(* Every operation is a pure function of coordinates and parameters, so    *)
(* the state machine is one call: Init draws the profile, the parameters,  *)
(* the coordinate inputs (scalar or array) and the numeric type of the     *)
(* parameters; one action per operation (function, derivatives, hessian    *)
(* of each profile) applies it and stores the outcome in `result`.  The    *)
(* caller may go on calling operations on the same instance with the same  *)
(* objects x and y; `calls` counts the calls made.  Neither class assigns  *)
(* an attribute of self, so the instance is its class (`profile`).         *)
(*                                                                         *)
(* The fixed optimization routines SIE_shear and SPEP_shear are a second    *)
(* state machine (RoutineSpec) over the same variables: `profile` is the   *)
(* class, `y` the lens_model_list given to the constructor, `kwargs` the   *)
(* kwargs_lens list the instance keeps, `x` the reoptimize argument of     *)
(* the last get_param_ranges call and `result` the outcome of the last     *)
(* constructor or method call.                                             *)
(*                                                                         *)
(* Numbers are exact rationals <<n, d>> (d > 0, lowest terms); floating    *)
(* point rounding is not modelled.  Coordinates are drawn from points      *)
(* whose radius is rational, so that np.sqrt is computed exactly.          *)
(***************************************************************************)
EXTENDS Integers, Sequences, FiniteSets, TLC

VARIABLES profile, kwargs, ptype, x, y, pc, op, result, calls

vars == <<profile, kwargs, ptype, x, y, pc, op, result, calls>>

(***************************************************************************)
(* Bounds of the model.                                                    *)
(***************************************************************************)
\* longest coordinate array
MaxLen == 2
\* largest x coordinate, in half units (x <= MaxC/2)
MaxC == 6
\* longest sequence of calls on one instance
MaxCalls == 2

(***************************************************************************)
(* Exact rational arithmetic.                                              *)
(***************************************************************************)
Abs(n) == IF n < 0 THEN -n ELSE n

RECURSIVE GCD(_, _)
GCD(m, n) == IF n = 0 THEN m ELSE GCD(n, m % n)

\* the rational n/d in lowest terms with a positive denominator (d # 0)
R(n, d) ==
    LET s == IF d < 0 THEN -1 ELSE 1
        g == GCD(Abs(n), Abs(d))
    IN  <<(s * n) \div g, (s * d) \div g>>

I(n) == <<n, 1>>
Half(k) == R(k, 2)

RAdd(p, q) == R(p[1] * q[2] + q[1] * p[2], p[2] * q[2])
RSub(p, q) == R(p[1] * q[2] - q[1] * p[2], p[2] * q[2])
RMul(p, q) == R(p[1] * q[1], p[2] * q[2])
RNeg(p) == <<-p[1], p[2]>>
\* q # 0
RDiv(p, q) == R(p[1] * q[2], p[2] * q[1])
RLt(p, q) == p[1] * q[2] < q[1] * p[2]
RLe(p, q) == p[1] * q[2] <= q[1] * p[2]
RGt(p, q) == RLt(q, p)
RGe(p, q) == RLe(q, p)
RSq(p) == RMul(p, p)
RCube(p) == RMul(p, RMul(p, p))
RZero == I(0)
ROne == I(1)

\* the largest k in lo..hi with k * k <= n
RECURSIVE BSearch(_, _, _)
BSearch(n, lo, hi) ==
    IF lo = hi THEN lo
    ELSE LET mid == (lo + hi + 1) \div 2
         IN  IF mid * mid <= n THEN BSearch(n, mid, hi) ELSE BSearch(n, lo, mid - 1)

\* the integer square root of n >= 0 (roots of 32-bit integers are below 46341)
ISqrt(n) == BSearch(n, 0, IF n < 46340 THEN n ELSE 46340)
IsSquare(n) == n >= 0 /\ ISqrt(n) * ISqrt(n) = n
\* q >= 0 is the square of a rational
RIsSquare(q) == q[1] >= 0 /\ IsSquare(q[1]) /\ IsSquare(q[2])
\* np.sqrt on such a q
RSqrt(q) == <<ISqrt(q[1]), ISqrt(q[2])>>

(***************************************************************************)
(* Exact complex arithmetic on <<re, im>>, re and im rationals.            *)
(***************************************************************************)
CAdd(p, q) == <<RAdd(p[1], q[1]), RAdd(p[2], q[2])>>
CSub(p, q) == <<RSub(p[1], q[1]), RSub(p[2], q[2])>>
CMul(p, q) ==
    <<RSub(RMul(p[1], q[1]), RMul(p[2], q[2])), RAdd(RMul(p[1], q[2]), RMul(p[2], q[1]))>>
CConj(p) == <<p[1], RNeg(p[2])>>
CNeg(p) == <<RNeg(p[1]), RNeg(p[2])>>
\* k * p for a real k
CScale(k, p) == <<RMul(k, p[1]), RMul(k, p[2])>>
\* |p|^2
CAbs2(p) == RAdd(RSq(p[1]), RSq(p[2]))

\* cmath.sqrt(p) is computed exactly: real and imaginary part of the root are
\* rational, and p is off the branch cut (the negative real axis, where the
\* sign of a floating-point zero imaginary part selects the root)
CSqrtExact(p) ==
    /\ ~(p[2] = RZero /\ RLt(p[1], RZero))
    /\ RIsSquare(CAbs2(p))
    /\ RIsSquare(RDiv(RAdd(RSqrt(CAbs2(p)), p[1]), I(2)))
    /\ RIsSquare(RDiv(RSub(RSqrt(CAbs2(p)), p[1]), I(2)))

\* cmath.sqrt(p), the root of non-negative real part, for such a p
CSqrt(p) ==
    LET m == RSqrt(CAbs2(p))
        re == RSqrt(RDiv(RAdd(m, p[1]), I(2)))
        im == RSqrt(RDiv(RSub(m, p[1]), I(2)))
    IN  <<re, IF RLt(p[2], RZero) THEN RNeg(im) ELSE im>>

(***************************************************************************)
(* Coordinate inputs.  A coordinate argument is a scalar or a 1-d array;   *)
(* v holds the single value of a scalar or the elements of an array.       *)
(***************************************************************************)
Scal(c) == [scalar |-> TRUE, v |-> <<c>>]
Arr(s) == [scalar |-> FALSE, v |-> s]
Rep(c, n) == [i \in 1..n |-> c]
\* a scalar (n = -1) or an array of n copies of c
Shaped(c, n) == IF n = -1 THEN Scal(c) ELSE Arr(Rep(c, n))

Xs == {Half(k) : k \in -2..MaxC}
Ys == {I(0), I(1), I(2)}

\* r*r for the offset of the point p from the center (cx, cy)
R2(p, cx, cy) == RAdd(RSq(RSub(p[1], cx)), RSq(RSub(p[2], cy)))

\* the points whose radius is rational both from the origin and from the center
Points(cx, cy) ==
    {p \in Xs \X Ys : RIsSquare(R2(p, RZero, RZero)) /\ RIsSquare(R2(p, cx, cy))}

\* array elements are drawn from four points: the origin, two points of the
\* x axis and one of the y axis
ArrayPoints(P) ==
    P \cap {<<I(0), I(0)>>, <<I(1), I(0)>>, <<I(2), I(0)>>, <<I(0), I(2)>>}

PointSeqs(P) == UNION {[1..n -> ArrayPoints(P)] : n \in 0..MaxLen}

\* x and y of one shape: a scalar point or an array of points
Matched(P) ==
    {<<Scal(p[1]), Scal(p[2])>> : p \in P}
    \cup {<<Arr([i \in 1..Len(s) |-> s[i][1]]), Arr([i \in 1..Len(s) |-> s[i][2]])>> :
            s \in PointSeqs(P)}

\* x and y of different shapes (scalar against array, or arrays of two lengths)
Mismatched(P) ==
    {<<Shaped(p[1], m), Shaped(p[2], n)>> :
        <<p, m, n>> \in {t \in (ArrayPoints(P) \cap {<<I(1), I(0)>>, <<I(0), I(2)>>})
                                \X (-1..MaxLen) \X (-1..MaxLen) : t[2] # t[3]}}

Centers == {<<I(0), I(0)>>, <<Half(3), I(0)>>}

\* directions (cos t, sin t) with rational cosine and sine, one per quadrant
Directions == {<<R(3, 5), R(4, 5)>>, <<R(-4, 5), R(3, 5)>>, <<R(-3, 5), R(-4, 5)>>,
               <<R(4, 5), R(-3, 5)>>}

\* the points center + e^(i psi) * (a cos t + i b sin t) of the boundary of the
\* ellipse a, b, psi (cpsi = <<cos psi, sin psi>>)
BoundaryPoints(a, b, cpsi, cx, cy) ==
    {<<RAdd(cx, CMul(cpsi, <<RMul(a, d[1]), RMul(b, d[2])>>)[1]),
       RAdd(cy, CMul(cpsi, <<RMul(a, d[1]), RMul(b, d[2])>>)[2])>> : d \in Directions}

SisKwargs ==
    {[theta_E |-> I(t), r_trunc |-> I(rt), center_x |-> c[1], center_y |-> c[2]] :
        <<t, rt, c>> \in (1..2) \X (0..2) \X Centers}

(***************************************************************************)
(* Outcome of a call: the returned outputs (one sequence of values per     *)
(* output; a scalar output is a sequence of one value with scalar = TRUE)  *)
(* or the exception the call ends in.                                      *)
(***************************************************************************)
Return(isScalar, outs) ==
    [status |-> "return", exc |-> "", scalar |-> isScalar, out |-> outs]
Raise(e) == [status |-> "raise", exc |-> e, scalar |-> FALSE, out |-> <<>>]
NoResult == [status |-> "none", exc |-> "", scalar |-> FALSE, out |-> <<>>]

(***************************************************************************)
(* numpy broadcasting of the two coordinate arguments in an elementwise    *)
(* expression: the common length, or -1 when the shapes are incompatible   *)
(* (ValueError).                                                           *)
(***************************************************************************)
BLen(xin, yin) ==
    LET lx == Len(xin.v)
        ly == Len(yin.v)
    IN  IF xin.scalar THEN ly
        ELSE IF yin.scalar THEN lx
        ELSE IF lx = ly THEN lx
        ELSE IF lx = 1 THEN ly
        ELSE IF ly = 1 THEN lx
        ELSE -1

BScalar(xin, yin) == xin.scalar /\ yin.scalar
BAt(in, i) == IF in.scalar \/ Len(in.v) = 1 THEN in.v[1] ELSE in.v[i]

(***************************************************************************)
(* SIS_truncate                                                            *)
(***************************************************************************)
\* SIS_function_scalar with the blend factor (2 - r / r_trunc) of the first
\* derivative in place of (3 - r / r_trunc)
SIS_function_scalar_blend2(r, theta_E, r_trunc) ==
    IF RLt(r, r_trunc) THEN RMul(theta_E, r)
    ELSE IF RLt(r, RMul(I(2), r_trunc))
    THEN RAdd(RMul(theta_E, r_trunc),
              RMul(RMul(RMul(Half(1), theta_E), RSub(I(2), RDiv(r, r_trunc))),
                   RSub(r, r_trunc)))
    ELSE RMul(RMul(R(3, 2), theta_E), r_trunc)

\* the expressions of the three regimes of the potential (lines 57, 59-61, 63)
potential_inner(r, theta_E) == RMul(theta_E, r)

\* potential_blend with the factor (2 - r / r_trunc) of the first derivative
potential_blend_factor2(r, theta_E, r_trunc) ==
    RAdd(RMul(theta_E, r_trunc),
         RMul(RMul(RMul(Half(1), theta_E), RSub(I(2), RDiv(r, r_trunc))),
              RSub(r, r_trunc)))

\* r_trunc # 0
potential_blend(r, theta_E, r_trunc) ==
    RAdd(RMul(theta_E, r_trunc),
         RMul(RMul(RMul(Half(1), theta_E), RSub(I(3), RDiv(r, r_trunc))),
              RSub(r, r_trunc)))

potential_outer(theta_E, r_trunc) == RMul(RMul(R(3, 2), theta_E), r_trunc)

\* function, scalar branch (isinstance(r, float))
SIS_function_scalar(r, theta_E, r_trunc) ==
    IF RLt(r, r_trunc) THEN potential_inner(r, theta_E)
    ELSE IF RLt(r, RMul(I(2), r_trunc)) THEN potential_blend(r, theta_E, r_trunc)
    ELSE potential_outer(theta_E, r_trunc)

\* function, array branch: zeros_like, then three masked assignments in order
SIS_function_array(r, theta_E, r_trunc) ==
    [i \in 1..Len(r) |->
        LET f0 == RZero
            f1 == IF RLt(r[i], r_trunc) THEN RMul(theta_E, r[i]) ELSE f0
            f2 == IF RLt(r[i], RMul(I(2), r_trunc)) /\ RGt(r[i], r_trunc)
                  THEN RAdd(RMul(theta_E, r_trunc),
                            RMul(RMul(RMul(Half(1), theta_E),
                                      RSub(I(3), RDiv(r[i], r_trunc))),
                                 RSub(r[i], r_trunc)))
                  ELSE f1
            f3 == IF RGt(r[i], RMul(I(2), r_trunc))
                  THEN RMul(RMul(R(3, 2), theta_E), r_trunc)
                  ELSE f2
        IN  f3]

\* r = np.sqrt(x_shift * x_shift + y_shift * y_shift), elementwise
SIS_r(xin, yin, cx, cy) ==
    [i \in 1..BLen(xin, yin) |-> RSqrt(R2(<<BAt(xin, i), BAt(yin, i)>>, cx, cy))]

SIS_function(xin, yin, kw) ==
    IF BLen(xin, yin) = -1 THEN Raise("ValueError")
    ELSE LET r == SIS_r(xin, yin, kw.center_x, kw.center_y)
         IN  IF BScalar(xin, yin)
             THEN Return(TRUE, <<<<SIS_function_scalar(r[1], kw.theta_E, kw.r_trunc)>>>>)
             ELSE Return(FALSE, <<SIS_function_array(r, kw.theta_E, kw.r_trunc)>>)

\* the expressions of the first two regimes of dphi/dr (lines 134, 136)
dphi_inner(theta_E) == theta_E
\* r_trunc # 0
dphi_blend(r, theta_E, r_trunc) == RMul(theta_E, RSub(I(2), RDiv(r, r_trunc)))

\* _dphi_dr, scalar branch
dphi_dr_scalar(r, theta_E, r_trunc) ==
    IF r = RZero THEN RZero
    ELSE IF RLt(r, r_trunc) THEN dphi_inner(theta_E)
    ELSE IF RLt(r, RMul(I(2), r_trunc)) THEN dphi_blend(r, theta_E, r_trunc)
    ELSE RZero

\* dphi_dr_array with r > r_trunc in the mask of the second regime
dphi_dr_array_strict(r, theta_E, r_trunc) ==
    [i \in 1..Len(r) |->
        LET a0 == RZero
            a1 == IF RLt(r[i], r_trunc) /\ RGt(r[i], RZero) THEN theta_E ELSE a0
            a2 == IF RLt(r[i], RMul(I(2), r_trunc)) /\ RGt(r[i], r_trunc)
                  THEN RMul(theta_E, RSub(I(2), RDiv(r[i], r_trunc)))
                  ELSE a1
            a3 == IF RGe(r[i], RMul(I(2), r_trunc)) THEN RZero ELSE a2
        IN  a3]

\* _dphi_dr, array branch
dphi_dr_array(r, theta_E, r_trunc) ==
    [i \in 1..Len(r) |->
        LET a0 == RZero
            a1 == IF RLt(r[i], r_trunc) /\ RGt(r[i], RZero) THEN theta_E ELSE a0
            a2 == IF RLt(r[i], RMul(I(2), r_trunc)) /\ RGe(r[i], r_trunc)
                  THEN RMul(theta_E, RSub(I(2), RDiv(r[i], r_trunc)))
                  ELSE a1
            a3 == IF RGe(r[i], RMul(I(2), r_trunc)) THEN RZero ELSE a2
        IN  a3]

\* _d2phi_dr2, scalar branch
d2phi_dr2_scalar(r, theta_E, r_trunc) ==
    IF RLt(r, r_trunc) THEN RZero
    ELSE IF RLt(r, RMul(I(2), r_trunc)) THEN RDiv(RNeg(theta_E), r_trunc)
    ELSE RZero

\* _d2phi_dr2, array branch: the right-hand side -theta_E / r_trunc is a division
\* of the two parameters, evaluated whether or not the mask selects an element.
\* Python numbers raise on a zero divisor; numpy scalars give inf or nan.
d2phi_dr2_raises(r_trunc, pt) == r_trunc = RZero /\ pt = "float"

d2phi_dr2_array(r, theta_E, r_trunc) ==
    [i \in 1..Len(r) |->
        LET a0 == RZero
            a1 == IF RLt(r[i], r_trunc) THEN RZero ELSE a0
            a2 == IF RLt(r[i], RMul(I(2), r_trunc)) /\ RGt(r[i], r_trunc)
                  THEN RDiv(RNeg(theta_E), r_trunc)
                  ELSE a1
            a3 == IF RGt(r[i], RMul(I(2), r_trunc)) THEN RZero ELSE a2
        IN  a3]

\* _dr_dx at one point: r == 0 is replaced by 1
dr_dx(px, py) ==
    LET r0 == RSqrt(RAdd(RSq(px), RSq(py)))
        r == IF r0 = RZero THEN ROne ELSE r0
    IN  <<RDiv(px, r), RDiv(py, r)>>

\* _d2r_dx2 at one point
d2r_dx2(px, py) ==
    LET r0 == RSqrt(RAdd(RSq(px), RSq(py)))
        r == IF r0 = RZero THEN ROne ELSE r0
    IN  <<RDiv(RSq(py), RCube(r)), RDiv(RSq(px), RCube(r)),
          RDiv(RNeg(RMul(px, py)), RCube(r))>>

\* SIS_derivatives on the coordinates themselves, the center left out
SIS_derivatives_uncentered(xin, yin, kw) ==
    IF BLen(xin, yin) = -1 THEN Raise("ValueError")
    ELSE LET n == BLen(xin, yin)
             xs == [i \in 1..n |-> BAt(xin, i)]
             ys == [i \in 1..n |-> BAt(yin, i)]
             r == SIS_r(xin, yin, RZero, RZero)
             dphi == IF BScalar(xin, yin)
                     THEN <<dphi_dr_scalar(r[1], kw.theta_E, kw.r_trunc)>>
                     ELSE dphi_dr_array(r, kw.theta_E, kw.r_trunc)
             f_x == [i \in 1..n |-> RMul(dphi[i], dr_dx(xs[i], ys[i])[1])]
             f_y == [i \in 1..n |-> RMul(dphi[i], dr_dx(xs[i], ys[i])[2])]
         IN  Return(BScalar(xin, yin), <<f_x, f_y>>)

SIS_derivatives(xin, yin, kw) ==
    IF BLen(xin, yin) = -1 THEN Raise("ValueError")
    ELSE LET n == BLen(xin, yin)
             xs == [i \in 1..n |-> RSub(BAt(xin, i), kw.center_x)]
             ys == [i \in 1..n |-> RSub(BAt(yin, i), kw.center_y)]
             r == SIS_r(xin, yin, kw.center_x, kw.center_y)
             dphi == IF BScalar(xin, yin)
                     THEN <<dphi_dr_scalar(r[1], kw.theta_E, kw.r_trunc)>>
                     ELSE dphi_dr_array(r, kw.theta_E, kw.r_trunc)
             f_x == [i \in 1..n |-> RMul(dphi[i], dr_dx(xs[i], ys[i])[1])]
             f_y == [i \in 1..n |-> RMul(dphi[i], dr_dx(xs[i], ys[i])[2])]
         IN  Return(BScalar(xin, yin), <<f_x, f_y>>)

\* the coordinates handed to _dr_dx by hessian
hessian_dr_dx_args(px, py, cx, cy) == <<px, py>>

\* hessian_return with the first diagonal term in the place of f_yx
hessian_return_diagonal(f_xx, f_xy, f_yy) == <<f_xx, f_xy, f_xx, f_yy>>

\* dr_dx_arguments_after with the assignment made to x in place of r
dr_dx_arguments_aliased(xv, yv) ==
    <<[i \in 1..Len(xv) |->
         IF Len(yv) = Len(xv) /\ xv[i] = RZero /\ yv[i] = RZero THEN ROne ELSE xv[i]],
      yv>>

\* hessian hands the caller's own arrays x and y to _dr_dx (line 112), whose
\* masked assignment r[r == 0] = 1 writes into r, the new array of np.sqrt:
\* the elements of x and y after the call
dr_dx_arguments_after(xv, yv) == <<xv, yv>>

\* return f_xx, f_xy, f_xy, f_yy
hessian_return(f_xx, f_xy, f_yy) == <<f_xx, f_xy, f_xy, f_yy>>

SIS_hessian(xin, yin, kw, pt) ==
    IF BLen(xin, yin) = -1 THEN Raise("ValueError")
    ELSE IF ~BScalar(xin, yin) /\ d2phi_dr2_raises(kw.r_trunc, pt)
    THEN Raise("ZeroDivisionError")
    ELSE LET n == BLen(xin, yin)
             xs == [i \in 1..n |-> RSub(BAt(xin, i), kw.center_x)]
             ys == [i \in 1..n |-> RSub(BAt(yin, i), kw.center_y)]
             r == SIS_r(xin, yin, kw.center_x, kw.center_y)
             dphi == IF BScalar(xin, yin)
                     THEN <<dphi_dr_scalar(r[1], kw.theta_E, kw.r_trunc)>>
                     ELSE dphi_dr_array(r, kw.theta_E, kw.r_trunc)
             d2phi == IF BScalar(xin, yin)
                      THEN <<d2phi_dr2_scalar(r[1], kw.theta_E, kw.r_trunc)>>
                      ELSE d2phi_dr2_array(r, kw.theta_E, kw.r_trunc)
             dr == [i \in 1..n |->
                      LET a == hessian_dr_dx_args(BAt(xin, i), BAt(yin, i),
                                                  kw.center_x, kw.center_y)
                      IN  dr_dx(a[1], a[2])]
             d2r == [i \in 1..n |-> d2r_dx2(xs[i], ys[i])]
             f_xx == [i \in 1..n |->
                        RAdd(RMul(d2r[i][1], dphi[i]), RMul(RSq(dr[i][1]), d2phi[i]))]
             f_yy == [i \in 1..n |->
                        RAdd(RMul(d2r[i][2], dphi[i]), RMul(RSq(dr[i][2]), d2phi[i]))]
             f_xy == [i \in 1..n |->
                        RAdd(RMul(d2r[i][3], dphi[i]),
                             RMul(RMul(dr[i][1], dr[i][2]), d2phi[i]))]
         IN  Return(BScalar(xin, yin), hessian_return(f_xx, f_xy, f_yy))

(***************************************************************************)
(* ElliSLICE                                                               *)
(*                                                                         *)
(* psi is given by <<cos(psi), sin(psi)>>, drawn from angles whose cosine  *)
(* and sine are rational.  A point handed to a branch is                   *)
(* <<x_, y_, dx, dy>>: the offset (x_, y_) from the center plus (dx, dy)   *)
(* times the differencing step diff of hessian.  The step (1e-9) and the   *)
(* axis threshold (1e-10) are far finer than the coordinate grid, so a     *)
(* comparison of c0 + c1*diff + c2*diff^2 is decided by the first          *)
(* coefficient that differs.                                               *)
(*                                                                         *)
(* A value is [kind, part, at, val, args]: the formula that produced it,   *)
(* the point it was evaluated at, its exact value val where the point is   *)
(* not displaced and the formula is computed exactly (<<>> otherwise: the  *)
(* outside branch is exact where cmath.sqrt has a rational root), and the  *)
(* values it was computed from.  The exact value of a potential is         *)
(* <<q, c, m>>, standing for q + c * log(m).                               *)
(***************************************************************************)
\* diff = 0.000000001 = 10^-DiffExponent
DiffExponent == 9
\* 10**-10 = 10^-EpsExponent
EpsExponent == 10

RECURSIVE Pow10(_)
Pow10(k) == IF k = 0 THEN 1 ELSE 10 * Pow10(k - 1)

Psis == {<<I(1), I(0)>>, <<I(0), I(1)>>, <<R(3, 5), R(4, 5)>>}

ElliKwargs ==
    {[a |-> I(ab[1]), b |-> I(ab[2]), psi |-> ps, sigma_0 |-> I(2),
      center_x |-> c[1], center_y |-> c[2]] :
        <<ab, ps, c>> \in {<<1, 1>>, <<2, 1>>, <<2, 2>>} \X Psis \X Centers}

Value(k, pa, pt, v, ar) == [kind |-> k, part |-> pa, at |-> pt, val |-> v, args |-> ar]
Displaced(pt) == pt[3] # 0 \/ pt[4] # 0

\* x_rot and y_rot of lines 75-76 and 117-118, as <<c0, c1>> = c0 + c1*diff
x_rot(pt, psi) ==
    <<RAdd(RMul(pt[1], psi[1]), RMul(pt[2], psi[2])),
      RAdd(RMul(I(pt[3]), psi[1]), RMul(I(pt[4]), psi[2]))>>
y_rot(pt, psi) ==
    <<RAdd(RMul(RNeg(pt[1]), psi[2]), RMul(pt[2], psi[1])),
      RAdd(RMul(RNeg(I(pt[3])), psi[2]), RMul(I(pt[4]), psi[1]))>>

\* c0 + c1*diff + c2*diff^2 <= bound
PolyLe(c0, c1, c2, bound) ==
    \/ RLt(c0, bound)
    \/ c0 = bound /\ (RLt(c1, RZero) \/ (c1 = RZero /\ RLe(c2, RZero)))

\* (x_rot**2 / a**2) + (y_rot**2 / b**2) <= 1
Inside(pt, kw) ==
    LET xr == x_rot(pt, kw.psi)
        yr == y_rot(pt, kw.psi)
        a2 == RSq(kw.a)
        b2 == RSq(kw.b)
    IN  PolyLe(RAdd(RDiv(RSq(xr[1]), a2), RDiv(RSq(yr[1]), b2)),
               RAdd(RDiv(RMul(I(2), RMul(xr[1], xr[2])), a2),
                    RDiv(RMul(I(2), RMul(yr[1], yr[2])), b2)),
               RAdd(RDiv(RSq(xr[2]), a2), RDiv(RSq(yr[2]), b2)),
               ROne)

\* sign deciding on the real part alone
sign_of_real_part(re, im) == IF RGe(re, RZero) THEN 1 ELSE -1

\* sign(z) for z = re + i*im
sign(re, im) == IF RGt(re, RZero) \/ (re = RZero /\ RGe(im, RZero)) THEN 1 ELSE -1

\* |u| <= 10**-10 * r for u = c0 + c1*diff and r*r = r2
NearZero(u, r2) ==
    /\ u[1] = RZero
    /\ RLe(RMul(I(Pow10(2 * (EpsExponent - DiffExponent))), RSq(u[2])), r2)

\* the median_op condition: sin(phi - psi) = y_rot / r and
\* sin(phi - psi - pi/2) = -x_rot / r; cart2polar gives phi = 0 at the origin
median_op(pt, kw) ==
    LET r2 == RAdd(RSq(pt[1]), RSq(pt[2]))
    IN  IF r2 = RZero /\ ~Displaced(pt)
        THEN kw.psi[2] = RZero \/ kw.psi[1] = RZero
        ELSE NearZero(y_rot(pt, kw.psi), r2) \/ NearZero(x_rot(pt, kw.psi), r2)

e2ipsi(psi) == <<RSub(RSq(psi[1]), RSq(psi[2])), RMul(I(2), RMul(psi[1], psi[2]))>>
Ecc(kw) == RDiv(RSub(kw.a, kw.b), RAdd(kw.a, kw.b))

\* alpha_in: I_in = (z - e * zb * e2ipsi) * sig_0
alpha_in(pt, kw) ==
    LET e == Ecc(kw)
        w == e2ipsi(kw.psi)
        zbw == <<RAdd(RMul(pt[1], w[1]), RMul(pt[2], w[2])),
                 RSub(RMul(pt[1], w[2]), RMul(pt[2], w[1]))>>
        re == RMul(RSub(pt[1], RMul(e, zbw[1])), kw.sigma_0)
        im == RMul(RSub(pt[2], RMul(e, zbw[2])), kw.sigma_0)
    IN  [exc |-> "",
         out |-> <<Value("alpha_in", "real", pt, IF Displaced(pt) THEN <<>> ELSE <<re>>, <<>>),
                   Value("alpha_in", "imag", pt, IF Displaced(pt) THEN <<>> ELSE <<im>>, <<>>)>>]

\* x**2 + y**2 > a**2
OutsideCircle(pt, kw) ==
    ~PolyLe(RAdd(RSq(pt[1]), RSq(pt[2])),
            RMul(I(2), RAdd(RMul(pt[1], I(pt[3])), RMul(pt[2], I(pt[4])))),
            I(pt[3] * pt[3] + pt[4] * pt[4]),
            RSq(kw.a))

\* a division by a parameter expression that is zero: Python floats raise,
\* numpy scalars give inf or nan
DivByZero(ptp, parts) ==
    IF ptp = "float" THEN [exc |-> "ZeroDivisionError", out |-> <<>>]
    ELSE [exc |-> "", out |-> [i \in 1..Len(parts) |-> Value("nonfinite", parts[i], <<>>, <<>>, <<>>)]]

\* the simplified formula of the round case is reached only without median_op
alpha_ext_simplified(pt, kw) == ~median_op(pt, kw) /\ kw.a = kw.b /\ OutsideCircle(pt, kw)

\* the general formula of alpha_ext (lines 280-289) at an undisplaced point with
\* f2 # 0: <<I_out>> where cmath.sqrt is computed exactly, <<>> otherwise
I_out(pt, kw) ==
    LET zb == CConj(<<pt[1], pt[2]>>)
        f2 == RSub(RSq(kw.a), RSq(kw.b))
        eipsi == kw.psi
        rad == CSub(CMul(CMul(zb, zb), e2ipsi(kw.psi)), <<f2, RZero>>)
        sg == sign(CMul(zb, eipsi)[1], CMul(zb, eipsi)[2])
    IN  IF Displaced(pt) \/ ~CSqrtExact(rad) THEN <<>>
        ELSE <<CScale(RMul(RDiv(RMul(I(2), RMul(kw.a, kw.b)), f2), kw.sigma_0),
                      CSub(CMul(zb, e2ipsi(kw.psi)),
                           CMul(eipsi, CScale(I(sg), CSqrt(rad)))))>>

\* the point of radius r at angle phi + k * eps
Perturbed(pt, k) == <<pt[1], pt[2], pt[3], pt[4], k>>

\* component part of the general formula at the point at, c its exact value
GeneralValue(kind, part, at, c) ==
    Value(kind, part, at,
          IF c = <<>> THEN <<>> ELSE <<IF part = "real" THEN c[1][1] ELSE c[1][2]>>, <<>>)

\* np.median of the general formula at angles phi - eps, phi + eps and phi
alpha_ext_median(part, pt, kw) ==
    Value("alpha_ext_median", part, pt, <<>>,
          <<GeneralValue("alpha_ext", part, Perturbed(pt, -1), <<>>),
            GeneralValue("alpha_ext", part, Perturbed(pt, 1), <<>>),
            GeneralValue("alpha_ext", part, Perturbed(pt, 0), I_out(pt, kw))>>)

alpha_ext(pt, kw, ptp) ==
    LET f2 == RSub(RSq(kw.a), RSq(kw.b))
        r2 == RAdd(RSq(pt[1]), RSq(pt[2]))
    IN  IF alpha_ext_simplified(pt, kw)
        THEN [exc |-> "",
              out |-> <<Value("alpha_ext_round", "real", pt,
                              IF Displaced(pt) THEN <<>>
                              ELSE <<RDiv(RMul(RMul(kw.sigma_0, RSq(kw.a)), pt[1]), r2)>>, <<>>),
                        Value("alpha_ext_round", "imag", pt,
                              IF Displaced(pt) THEN <<>>
                              ELSE <<RDiv(RMul(RMul(kw.sigma_0, RSq(kw.a)), pt[2]), r2)>>, <<>>)>>]
        ELSE IF f2 = RZero THEN DivByZero(ptp, <<"real", "imag">>)
        ELSE IF median_op(pt, kw)
        THEN [exc |-> "",
              out |-> <<alpha_ext_median("real", pt, kw), alpha_ext_median("imag", pt, kw)>>]
        ELSE [exc |-> "",
              out |-> <<GeneralValue("alpha_ext", "real", pt, I_out(pt, kw)),
                        GeneralValue("alpha_ext", "imag", pt, I_out(pt, kw))>>]

\* pot_in without the constant cst
pot_in_without_cst(pt, kw) ==
    LET e == Ecc(kw)
        rE == RDiv(RAdd(kw.a, kw.b), I(2))
        xr == x_rot(pt, kw.psi)[1]
        yr == y_rot(pt, kw.psi)[1]
        q == RMul(RMul(Half(1),
                       RAdd(RMul(RSub(ROne, e), RSq(xr)), RMul(RAdd(ROne, e), RSq(yr)))),
                  kw.sigma_0)
    IN  [exc |-> "",
         out |-> <<Value("pot_in", "real", pt,
                         IF Displaced(pt) THEN <<>> ELSE <<q, RZero, rE>>, <<>>)>>]

\* pot_in: the quadratic form plus cst = sig_0 * rE**2 * (1 - e**2) * log(rE);
\* val is <<quadratic form, coefficient of the logarithm, rE>>
pot_in(pt, kw) ==
    LET e == Ecc(kw)
        rE == RDiv(RAdd(kw.a, kw.b), I(2))
        xr == x_rot(pt, kw.psi)[1]
        yr == y_rot(pt, kw.psi)[1]
        q == RMul(RMul(Half(1),
                       RAdd(RMul(RSub(ROne, e), RSq(xr)), RMul(RAdd(ROne, e), RSq(yr)))),
                  kw.sigma_0)
        coef == RMul(RMul(kw.sigma_0, RSq(rE)), RSub(ROne, RSq(e)))
    IN  [exc |-> "",
         out |-> <<Value("pot_in", "real", pt,
                         IF Displaced(pt) THEN <<>> ELSE <<q, coef, rE>>, <<>>)>>]

\* the general formula of pot_ext (lines 424-442) at an undisplaced point with
\* e # 0, as <<rational part, coefficient of the logarithm, modulus of its
\* argument>> (the real part of cmath.log is the logarithm of the modulus), where
\* cmath.sqrt and the modulus are computed exactly; <<>> otherwise
pot_ext_general(pt, kw) ==
    LET z == <<pt[1], pt[2]>>
        e == Ecc(kw)
        f2 == RSub(RSq(kw.a), RSq(kw.b))
        emipsi == CConj(kw.psi)
        em2ipsi == CConj(e2ipsi(kw.psi))
        sz == CScale(I(sign(CMul(z, emipsi)[1], CMul(z, emipsi)[2])), CMul(z, emipsi))
        z2 == CMul(CMul(z, z), em2ipsi)
        rad == CSub(z2, <<f2, RZero>>)
        arg == CScale(Half(1), CAdd(sz, CSqrt(rad)))
        k == RMul(RDiv(RSub(ROne, RSq(e)), RMul(I(4), e)), kw.sigma_0)
    IN  IF Displaced(pt) \/ ~CSqrtExact(rad) THEN <<>>
        ELSE IF CAbs2(arg) = RZero \/ ~RIsSquare(CAbs2(arg)) THEN <<>>
        ELSE <<RMul(k, CAdd(CNeg(CMul(sz, CSqrt(rad))), z2)[1]),
               RMul(k, f2),
               RSqrt(CAbs2(arg))>>

\* np.median of the general formula at angles phi - eps, phi + eps and phi
pot_ext_median(pt, kw) ==
    Value("pot_ext_median", "real", pt, <<>>,
          <<Value("pot_ext", "real", Perturbed(pt, -1), <<>>, <<>>),
            Value("pot_ext", "real", Perturbed(pt, 1), <<>>, <<>>),
            Value("pot_ext", "real", Perturbed(pt, 0), pot_ext_general(pt, kw), <<>>)>>)

\* pot_ext: every branch divides (1 - e**2) by 4 * e
pot_ext(pt, kw, ptp) ==
    IF Ecc(kw) = RZero THEN DivByZero(ptp, <<"real">>)
    ELSE IF median_op(pt, kw)
    THEN [exc |-> "", out |-> <<pot_ext_median(pt, kw)>>]
    ELSE [exc |-> "", out |-> <<Value("pot_ext", "real", pt, pot_ext_general(pt, kw), <<>>)>>]

\* the point (x_[i], y_[i]) displaced by (dx, dy) * diff
PointAt(xin, yin, i, dx, dy, kw) ==
    <<RSub(BAt(xin, i), kw.center_x), RSub(BAt(yin, i), kw.center_y), dx, dy>>

\* function, scalar branch (lines 80-83)
function_scalar(pt, kw, ptp) ==
    IF Inside(pt, kw) THEN pot_in(pt, kw) ELSE pot_ext(pt, kw, ptp)

\* function_element with the boundary of the ellipse counted as outside
\* (< 1 in place of <= 1)
function_element_strict(pt, kw, ptp) ==
    LET xr == x_rot(pt, kw.psi)
        yr == y_rot(pt, kw.psi)
        c0 == RAdd(RDiv(RSq(xr[1]), RSq(kw.a)), RDiv(RSq(yr[1]), RSq(kw.b)))
        c1 == RAdd(RDiv(RMul(I(2), RMul(xr[1], xr[2])), RSq(kw.a)),
                   RDiv(RMul(I(2), RMul(yr[1], yr[2])), RSq(kw.b)))
        c2 == RAdd(RDiv(RSq(xr[2]), RSq(kw.a)), RDiv(RSq(yr[2]), RSq(kw.b)))
    IN  IF RLt(c0, ROne) \/ (c0 = ROne /\ (RLt(c1, RZero) \/ (c1 = RZero /\ RLt(c2, RZero))))
        THEN pot_in(pt, kw)
        ELSE pot_ext(pt, kw, ptp)

\* function, one element of the array branch (lines 87-91)
function_element(pt, kw, ptp) ==
    IF Inside(pt, kw) THEN pot_in(pt, kw) ELSE pot_ext(pt, kw, ptp)

\* derivatives, scalar branch (lines 122-125)
derivatives_scalar(pt, kw, ptp) ==
    IF Inside(pt, kw) THEN alpha_in(pt, kw) ELSE alpha_ext(pt, kw, ptp)

\* derivatives, one element of the array branch (lines 129-133)
derivatives_element(pt, kw, ptp) ==
    IF Inside(pt, kw) THEN alpha_in(pt, kw) ELSE alpha_ext(pt, kw, ptp)

Min(S) == CHOOSE m \in S : \A k \in S : m <= k

\* what indexing x_rot[i], x_[i], y_[i] ends in for element i of the loop over
\* range(len(x_)): "" when all three exist
IndexOutcome(xin, yin, i) ==
    IF i > BLen(xin, yin) THEN "IndexError"
    ELSE IF yin.scalar THEN "TypeError|IndexError"
    ELSE IF i > Len(yin.v) THEN "IndexError"
    ELSE ""

IndexFailure(e) == [exc |-> e, out |-> <<>>]

\* the list comprehension over range(len(x_)): the element outcomes in order,
\* ending at the first exception
Collect(outs) ==
    LET bad == {i \in DOMAIN outs : outs[i].exc # ""}
    IN  IF bad # {} THEN [exc |-> outs[Min(bad)].exc, out |-> <<>>]
        ELSE [exc |-> "", out |-> [i \in DOMAIN outs |-> outs[i].out]]

\* the truth value of a comparison on an array of m elements used as an if
\* condition: "" when it is the truth value of its one element
TruthOutcome(m) ==
    IF m = 1 THEN "" ELSE IF m = 0 THEN "ValueError|TypeError" ELSE "ValueError"

\* the return of the scalar branch: f is the branch's outcome; with y an array of
\* one element the formulas of kind arrayKind work on arrays and return one
ScalarResult(f, yScalar, arrayKind) ==
    IF f.exc # "" THEN Raise(f.exc)
    ELSE Return(yScalar \/ f.out[1].kind # arrayKind, [k \in 1..Len(f.out) |-> <<f.out[k]>>])

\* the return of the array branch: np.array of the element results, one output
\* per column; defl[:, 0] fails on the empty 1-d array np.array([])
ArrayResult(l, columns) ==
    IF l.exc # "" THEN Raise(l.exc)
    ELSE IF columns > 1 /\ Len(l.out) = 0 THEN Raise("IndexError")
    ELSE Return(FALSE, [k \in 1..columns |-> [i \in 1..Len(l.out) |-> l.out[i][k]]])

ElliSLICE_function_at(xin, yin, dx, dy, kw, ptp) ==
    IF BLen(xin, yin) = -1 THEN Raise("ValueError")
    ELSE IF xin.scalar
    THEN IF ~yin.scalar /\ TruthOutcome(Len(yin.v)) # ""
         THEN Raise(TruthOutcome(Len(yin.v)))
         ELSE ScalarResult(function_scalar(PointAt(xin, yin, 1, dx, dy, kw), kw, ptp),
                           yin.scalar, "pot_in")
    ELSE ArrayResult(Collect([i \in 1..Len(xin.v) |->
                        IF IndexOutcome(xin, yin, i) # ""
                        THEN IndexFailure(IndexOutcome(xin, yin, i))
                        ELSE function_element(PointAt(xin, yin, i, dx, dy, kw), kw, ptp)]),
                     1)

ElliSLICE_function(xin, yin, kw, ptp) == ElliSLICE_function_at(xin, yin, 0, 0, kw, ptp)

ElliSLICE_derivatives_at(xin, yin, dx, dy, kw, ptp) ==
    IF BLen(xin, yin) = -1 THEN Raise("ValueError")
    ELSE IF xin.scalar
    THEN IF ~yin.scalar /\ TruthOutcome(Len(yin.v)) # ""
         THEN Raise(TruthOutcome(Len(yin.v)))
         ELSE ScalarResult(derivatives_scalar(PointAt(xin, yin, 1, dx, dy, kw), kw, ptp),
                           yin.scalar, "alpha_ext_round")
    ELSE ArrayResult(Collect([i \in 1..Len(xin.v) |->
                        IF IndexOutcome(xin, yin, i) # ""
                        THEN IndexFailure(IndexOutcome(xin, yin, i))
                        ELSE derivatives_element(PointAt(xin, yin, i, dx, dy, kw), kw, ptp)]),
                     2)

ElliSLICE_derivatives(xin, yin, kw, ptp) ==
    ElliSLICE_derivatives_at(xin, yin, 0, 0, kw, ptp)

\* (hi - lo) / diff, elementwise
FiniteDifference(part, hi, lo) ==
    [i \in 1..Len(lo) |-> Value("forward_difference", part, lo[i].at, <<>>, <<hi[i], lo[i]>>)]

\* hessian_of with f_xy differenced along x in place of y
hessian_of_along_x(alpha, alpha_dx, alpha_dy) ==
    IF alpha.status = "raise" THEN alpha
    ELSE IF alpha_dx.status = "raise" THEN alpha_dx
    ELSE IF alpha_dy.status = "raise" THEN alpha_dy
    ELSE Return(alpha.scalar /\ alpha_dx.scalar /\ alpha_dy.scalar,
                <<FiniteDifference("f_xx", alpha_dx.out[1], alpha.out[1]),
                  FiniteDifference("f_xy", alpha_dx.out[1], alpha.out[1]),
                  FiniteDifference("f_yx", alpha_dx.out[2], alpha.out[2]),
                  FiniteDifference("f_yy", alpha_dy.out[2], alpha.out[2])>>)

\* lines 161-165, from the three deflection results; an exception of a
\* derivatives call ends hessian
hessian_of(alpha, alpha_dx, alpha_dy) ==
    IF alpha.status = "raise" THEN alpha
    ELSE IF alpha_dx.status = "raise" THEN alpha_dx
    ELSE IF alpha_dy.status = "raise" THEN alpha_dy
    ELSE Return(alpha.scalar /\ alpha_dx.scalar /\ alpha_dy.scalar,
                <<FiniteDifference("f_xx", alpha_dx.out[1], alpha.out[1]),
                  FiniteDifference("f_xy", alpha_dy.out[1], alpha.out[1]),
                  FiniteDifference("f_yx", alpha_dx.out[2], alpha.out[2]),
                  FiniteDifference("f_yy", alpha_dy.out[2], alpha.out[2])>>)

ElliSLICE_hessian(xin, yin, kw, ptp) ==
    hessian_of(ElliSLICE_derivatives_at(xin, yin, 0, 0, kw, ptp),
               ElliSLICE_derivatives_at(xin, yin, 1, 0, kw, ptp),
               ElliSLICE_derivatives_at(xin, yin, 0, 1, kw, ptp))

(***************************************************************************)
(* Static metadata of the two classes.                                     *)
(***************************************************************************)
Profiles == {"SIS_truncate", "ElliSLICE"}

param_names(p) ==
    IF p = "SIS_truncate" THEN <<"theta_E", "r_trunc", "center_x", "center_y">>
    ELSE <<"a", "b", "psi", "sigma_0", "center_x", "center_y">>

\* the keys of lower_limit_default and of upper_limit_default
lower_limit_keys(p) ==
    IF p = "SIS_truncate" THEN {"theta_E", "r_trunc", "center_x", "center_y"}
    ELSE {"a", "b", "psi", "center_x", "center_y"}

upper_limit_keys(p) ==
    IF p = "SIS_truncate" THEN {"theta_E", "r_trunc", "center_x", "center_y"}
    ELSE {"a", "b", "psi", "center_x", "center_y"}

\* psi = -+ 90/180 * pi is kept as its sign times a positive unit: limits are
\* <<units of one, units of pi>>
lower_limit_default(p, k) ==
    IF p = "SIS_truncate"
    THEN (IF k \in {"theta_E", "r_trunc"} THEN <<I(0), I(0)>> ELSE <<I(-100), I(0)>>)
    ELSE (IF k \in {"a", "b"} THEN <<I(0), I(0)>>
          ELSE IF k = "psi" THEN <<I(0), R(-90, 180)>>
          ELSE <<I(-100), I(0)>>)

upper_limit_default(p, k) ==
    IF p = "SIS_truncate" THEN <<I(100), I(0)>>
    ELSE (IF k = "psi" THEN <<I(0), R(90, 180)>> ELSE <<I(100), I(0)>>)

(***************************************************************************)
(* The state machine.                                                      *)
(***************************************************************************)
Alternatives(e) ==
    IF e = "ValueError|TypeError" THEN {"ValueError", "TypeError"}
    ELSE IF e = "TypeError|IndexError" THEN {"TypeError", "IndexError"}
    ELSE {e}

\* an exception that depends on the numpy version or on the scalar type is a choice
Outcomes(res) ==
    IF res.status = "raise" THEN {Raise(e) : e \in Alternatives(res.exc)} ELSE {res}

Init ==
    /\ profile \in Profiles
    /\ kwargs \in (IF profile = "SIS_truncate" THEN SisKwargs ELSE ElliKwargs)
    /\ ptype \in {"float", "float64"}
    /\ \E xy \in Matched(Points(kwargs.center_x, kwargs.center_y))
                 \cup Mismatched(Points(kwargs.center_x, kwargs.center_y))
                 \cup (IF profile = "ElliSLICE"
                       THEN {<<Scal(p[1]), Scal(p[2])>> :
                               p \in BoundaryPoints(kwargs.a, kwargs.b, kwargs.psi,
                                                    kwargs.center_x, kwargs.center_y)}
                       ELSE {}) :
          x = xy[1] /\ y = xy[2]
    /\ pc = "ready"
    /\ op = "none"
    /\ result = NoResult
    /\ calls = 0

SIS_truncate_function ==
    /\ calls < MaxCalls
    /\ profile = "SIS_truncate"
    /\ result' \in Outcomes(SIS_function(x, y, kwargs))
    /\ op' = "function"
    /\ pc' = "done"
    /\ calls' = calls + 1
    /\ UNCHANGED <<profile, kwargs, ptype, x, y>>

SIS_truncate_derivatives ==
    /\ calls < MaxCalls
    /\ profile = "SIS_truncate"
    /\ result' \in Outcomes(SIS_derivatives(x, y, kwargs))
    /\ op' = "derivatives"
    /\ pc' = "done"
    /\ calls' = calls + 1
    /\ UNCHANGED <<profile, kwargs, ptype, x, y>>

SIS_truncate_hessian ==
    /\ calls < MaxCalls
    /\ profile = "SIS_truncate"
    /\ result' \in Outcomes(SIS_hessian(x, y, kwargs, ptype))
    /\ op' = "hessian"
    /\ pc' = "done"
    /\ calls' = calls + 1
    /\ x' = (IF x.scalar \/ y.scalar \/ result'.status = "raise" THEN x
             ELSE Arr(dr_dx_arguments_after(x.v, y.v)[1]))
    /\ y' = (IF x.scalar \/ y.scalar \/ result'.status = "raise" THEN y
             ELSE Arr(dr_dx_arguments_after(x.v, y.v)[2]))
    /\ UNCHANGED <<profile, kwargs, ptype>>

ElliSLICE_function_call ==
    /\ calls < MaxCalls
    /\ profile = "ElliSLICE"
    /\ result' \in Outcomes(ElliSLICE_function(x, y, kwargs, ptype))
    /\ op' = "function"
    /\ pc' = "done"
    /\ calls' = calls + 1
    /\ UNCHANGED <<profile, kwargs, ptype, x, y>>

ElliSLICE_derivatives_call ==
    /\ calls < MaxCalls
    /\ profile = "ElliSLICE"
    /\ result' \in Outcomes(ElliSLICE_derivatives(x, y, kwargs, ptype))
    /\ op' = "derivatives"
    /\ pc' = "done"
    /\ calls' = calls + 1
    /\ UNCHANGED <<profile, kwargs, ptype, x, y>>

ElliSLICE_hessian_call ==
    /\ calls < MaxCalls
    /\ profile = "ElliSLICE"
    /\ result' \in Outcomes(ElliSLICE_hessian(x, y, kwargs, ptype))
    /\ op' = "hessian"
    /\ pc' = "done"
    /\ calls' = calls + 1
    /\ UNCHANGED <<profile, kwargs, ptype, x, y>>

Next ==
    \/ SIS_truncate_function
    \/ SIS_truncate_derivatives
    \/ SIS_truncate_hessian
    \/ ElliSLICE_function_call
    \/ ElliSLICE_derivatives_call
    \/ ElliSLICE_hessian_call

Spec == Init /\ [][Next]_vars

(***************************************************************************)
(* Fixed optimization routines: SIE_shear and SPEP_shear.                  *)
(*                                                                         *)
(* kwargs_lens is a list of two keyword records, the parameters of the     *)
(* power-law ellipse (SPEMD or SPEP) and of the external shear.            *)
(***************************************************************************)
Routines == {"SIE_shear", "SPEP_shear"}

LensModelLists ==
    {<<"SPEMD", "SHEAR">>, <<"SPEP", "SHEAR">>, <<"SHEAR", "SPEMD">>, <<"SPEP">>, <<>>}

KwargsLens ==
    {<<[theta_E |-> t, gamma |-> I(2), e1 |-> e1, e2 |-> e2, center_x |-> cx,
        center_y |-> I(0)],
       [e1 |-> s1, e2 |-> s2]>> :
        <<t, e1, e2, cx, s1, s2>> \in
            {I(1), R(6, 5)} \X {R(1, 10), R(-1, 5)} \X {I(0), R(1, 20)}
            \X {I(0), R(1, 100)} \X {R(1, 50), R(-1, 5)} \X {I(0), R(-3, 100)}}

\* the assertions of a constructor on lens_model_list; `first` is the model
\* name it expects at index 0
routine_asserts(first, lens_model_list) ==
    IF Len(lens_model_list) < 1 THEN Raise("IndexError")
    ELSE IF lens_model_list[1] # first THEN Raise("AssertionError")
    ELSE IF Len(lens_model_list) < 2 THEN Raise("IndexError")
    ELSE IF lens_model_list[2] # "SHEAR" THEN Raise("AssertionError")
    ELSE Return(FALSE, <<>>)

SIE_shear_init(lens_model_list) == routine_asserts("SPEMD", lens_model_list)

SPEP_shear_init(lens_model_list) == routine_asserts("SPEP", lens_model_list)

\* self.to_vary_names, the same list in both classes
to_vary_names ==
    <<<<"theta_E", "center_x", "center_y", "e1", "e2">>, <<"e1", "e2">>>>

SIE_vary_model_fixed(kwargs_lens) == Return(FALSE, [gamma |-> kwargs_lens[1].gamma])

SPEP_vary_model_fixed(kwargs_lens) == Return(FALSE, [gamma |-> kwargs_lens[1].gamma])

\* the local variables of get_param_ranges after the reoptimize branch
SIE_ranges_shear_from_ellipse(kwargs_lens) ==
    LET e1_e2 == R(5, 1000)
        e1_e2_shear == R(5, 1000)
        theta_E == R(1, 1000)
        center == R(1, 1000)
    IN  [low_e1 |-> RSub(kwargs_lens[1].e1, e1_e2),
         low_e2 |-> RSub(kwargs_lens[1].e2, e1_e2),
         hi_e1 |-> RAdd(kwargs_lens[1].e1, e1_e2),
         hi_e2 |-> RAdd(kwargs_lens[1].e2, e1_e2),
         low_shear_e1 |-> RSub(kwargs_lens[1].e1, e1_e2_shear),
         high_shear_e1 |-> RAdd(kwargs_lens[1].e1, e1_e2_shear),
         low_shear_e2 |-> RSub(kwargs_lens[1].e2, e1_e2_shear),
         high_shear_e2 |-> RAdd(kwargs_lens[1].e2, e1_e2_shear),
         low_Rein |-> RSub(kwargs_lens[1].theta_E, theta_E),
         hi_Rein |-> RAdd(kwargs_lens[1].theta_E, theta_E),
         low_centerx |-> RSub(kwargs_lens[1].center_x, center),
         hi_centerx |-> RAdd(kwargs_lens[1].center_x, center),
         low_centery |-> RSub(kwargs_lens[1].center_y, center),
         hi_centery |-> RAdd(kwargs_lens[1].center_y, center)]

SIE_ranges_reoptimize(kwargs_lens) ==
    LET e1_e2 == R(5, 1000)
        e1_e2_shear == R(5, 1000)
        theta_E == R(1, 1000)
        center == R(1, 1000)
    IN  [low_e1 |-> RSub(kwargs_lens[1].e1, e1_e2),
         low_e2 |-> RSub(kwargs_lens[1].e2, e1_e2),
         hi_e1 |-> RAdd(kwargs_lens[1].e1, e1_e2),
         hi_e2 |-> RAdd(kwargs_lens[1].e2, e1_e2),
         low_shear_e1 |-> RSub(kwargs_lens[2].e1, e1_e2_shear),
         high_shear_e1 |-> RAdd(kwargs_lens[2].e1, e1_e2_shear),
         low_shear_e2 |-> RSub(kwargs_lens[2].e2, e1_e2_shear),
         high_shear_e2 |-> RAdd(kwargs_lens[2].e2, e1_e2_shear),
         low_Rein |-> RSub(kwargs_lens[1].theta_E, theta_E),
         hi_Rein |-> RAdd(kwargs_lens[1].theta_E, theta_E),
         low_centerx |-> RSub(kwargs_lens[1].center_x, center),
         hi_centerx |-> RAdd(kwargs_lens[1].center_x, center),
         low_centery |-> RSub(kwargs_lens[1].center_y, center),
         hi_centery |-> RAdd(kwargs_lens[1].center_y, center)]

\* the same local variables after the else branch
SIE_ranges_default ==
    [low_e1 |-> R(-1, 10), low_e2 |-> R(-1, 10),
     hi_e1 |-> R(1, 10), hi_e2 |-> R(1, 10),
     low_shear_e1 |-> R(-5, 100), high_shear_e1 |-> R(5, 100),
     low_shear_e2 |-> R(-5, 100), high_shear_e2 |-> R(5, 100),
     low_Rein |-> R(7, 10), hi_Rein |-> R(14, 10),
     low_centerx |-> R(-1, 100), hi_centerx |-> R(1, 100),
     low_centery |-> R(-1, 100), hi_centery |-> R(1, 100)]

\* sie_list_low + shear_list_low, sie_list_high + shear_list_high
SIE_ranges_return(v) ==
    <<<<v.low_Rein, v.low_centerx, v.low_centery, v.low_e1, v.low_e2>>
        \o <<v.low_shear_e1, v.low_shear_e2>>,
      <<v.hi_Rein, v.hi_centerx, v.hi_centery, v.hi_e1, v.hi_e2>>
        \o <<v.high_shear_e1, v.high_shear_e2>>>>

SIE_get_param_ranges(kwargs_lens, reoptimize) ==
    Return(FALSE, SIE_ranges_return(IF reoptimize THEN SIE_ranges_reoptimize(kwargs_lens)
                                    ELSE SIE_ranges_default))

SPEP_ranges_reoptimize(kwargs_lens) ==
    LET e1_e2 == R(5, 1000)
        e1_e2_shear == R(5, 1000)
        theta_E == R(1, 1000)
        center == R(1, 1000)
    IN  [low_e1 |-> RSub(kwargs_lens[1].e1, e1_e2),
         low_e2 |-> RSub(kwargs_lens[1].e2, e1_e2),
         hi_e1 |-> RAdd(kwargs_lens[1].e1, e1_e2),
         hi_e2 |-> RAdd(kwargs_lens[1].e2, e1_e2),
         low_shear_e1 |-> RSub(kwargs_lens[2].e1, e1_e2_shear),
         high_shear_e1 |-> RAdd(kwargs_lens[2].e1, e1_e2_shear),
         low_shear_e2 |-> RSub(kwargs_lens[2].e2, e1_e2_shear),
         high_shear_e2 |-> RAdd(kwargs_lens[2].e2, e1_e2_shear),
         low_Rein |-> RSub(kwargs_lens[1].theta_E, theta_E),
         hi_Rein |-> RAdd(kwargs_lens[1].theta_E, theta_E),
         low_centerx |-> RSub(kwargs_lens[1].center_x, center),
         hi_centerx |-> RAdd(kwargs_lens[1].center_x, center),
         low_centery |-> RSub(kwargs_lens[1].center_y, center),
         hi_centery |-> RAdd(kwargs_lens[1].center_y, center)]

SPEP_ranges_default ==
    [low_e1 |-> R(-1, 10), low_e2 |-> R(-1, 10),
     hi_e1 |-> R(1, 10), hi_e2 |-> R(1, 10),
     low_shear_e1 |-> R(-5, 100), high_shear_e1 |-> R(5, 100),
     low_shear_e2 |-> R(-5, 100), high_shear_e2 |-> R(5, 100),
     low_Rein |-> R(7, 10), hi_Rein |-> R(14, 10),
     low_centerx |-> R(-1, 100), hi_centerx |-> R(1, 100),
     low_centery |-> R(-1, 100), hi_centery |-> R(1, 100)]

SPEP_ranges_return(v) ==
    <<<<v.low_Rein, v.low_centerx, v.low_centery, v.low_e1, v.low_e2>>
        \o <<v.low_shear_e1, v.low_shear_e2>>,
      <<v.hi_Rein, v.hi_centerx, v.hi_centery, v.hi_e1, v.hi_e2>>
        \o <<v.high_shear_e1, v.high_shear_e2>>>>

SPEP_get_param_ranges(kwargs_lens, reoptimize) ==
    Return(FALSE, SPEP_ranges_return(IF reoptimize THEN SPEP_ranges_reoptimize(kwargs_lens)
                                     ELSE SPEP_ranges_default))

\* before construction: the caller holds lens_model_list (y) and kwargs_lens
RoutineInit ==
    /\ profile \in Routines
    /\ kwargs \in KwargsLens
    /\ ptype = "float"
    /\ x = FALSE
    /\ y \in LensModelLists
    /\ pc = "new"
    /\ op = "none"
    /\ result = NoResult
    /\ calls = 0

SIE_shear_construct ==
    /\ pc = "new"
    /\ profile = "SIE_shear"
    /\ result' = SIE_shear_init(y)
    /\ op' = "__init__"
    /\ pc' = (IF result'.status = "raise" THEN "failed" ELSE "ready")
    /\ UNCHANGED <<profile, kwargs, ptype, x, y, calls>>

SPEP_shear_construct ==
    /\ pc = "new"
    /\ profile = "SPEP_shear"
    /\ result' = SPEP_shear_init(y)
    /\ op' = "__init__"
    /\ pc' = (IF result'.status = "raise" THEN "failed" ELSE "ready")
    /\ UNCHANGED <<profile, kwargs, ptype, x, y, calls>>

SIE_shear_vary_model_fixed ==
    /\ pc \in {"ready", "done"}
    /\ calls < MaxCalls
    /\ profile = "SIE_shear"
    /\ result' = SIE_vary_model_fixed(kwargs)
    /\ op' = "vary_model_fixed"
    /\ pc' = "done"
    /\ calls' = calls + 1
    /\ UNCHANGED <<profile, kwargs, ptype, x, y>>

SPEP_shear_vary_model_fixed ==
    /\ pc \in {"ready", "done"}
    /\ calls < MaxCalls
    /\ profile = "SPEP_shear"
    /\ result' = SPEP_vary_model_fixed(kwargs)
    /\ op' = "vary_model_fixed"
    /\ pc' = "done"
    /\ calls' = calls + 1
    /\ UNCHANGED <<profile, kwargs, ptype, x, y>>

SIE_shear_get_param_ranges ==
    /\ pc \in {"ready", "done"}
    /\ calls < MaxCalls
    /\ profile = "SIE_shear"
    /\ \E reoptimize \in BOOLEAN :
          /\ result' = SIE_get_param_ranges(kwargs, reoptimize)
          /\ x' = reoptimize
    /\ op' = "get_param_ranges"
    /\ pc' = "done"
    /\ calls' = calls + 1
    /\ UNCHANGED <<profile, kwargs, ptype, y>>

SPEP_shear_get_param_ranges ==
    /\ pc \in {"ready", "done"}
    /\ calls < MaxCalls
    /\ profile = "SPEP_shear"
    /\ \E reoptimize \in BOOLEAN :
          /\ result' = SPEP_get_param_ranges(kwargs, reoptimize)
          /\ x' = reoptimize
    /\ op' = "get_param_ranges"
    /\ pc' = "done"
    /\ calls' = calls + 1
    /\ UNCHANGED <<profile, kwargs, ptype, y>>

RoutineNext ==
    \/ SIE_shear_construct
    \/ SPEP_shear_construct
    \/ SIE_shear_vary_model_fixed
    \/ SPEP_shear_vary_model_fixed
    \/ SIE_shear_get_param_ranges
    \/ SPEP_shear_get_param_ranges

RoutineSpec == RoutineInit /\ [][RoutineNext]_vars

(***************************************************************************)
(* Properties                                                              *)
(***************************************************************************)
Done(p, o) == pc = "done" /\ profile = p /\ op = o

\* x and y are both scalars or arrays of one length
MatchedShapes ==
    \/ x.scalar /\ y.scalar
    \/ ~x.scalar /\ ~y.scalar /\ Len(x.v) = Len(y.v)

\* the radius of element i from the center
Radius(i) == RSqrt(R2(<<x.v[i], y.v[i]>>, kwargs.center_x, kwargs.center_y))

InsideKinds == {"pot_in", "alpha_in"}
OutsideKinds ==
    {"pot_ext", "pot_ext_median", "alpha_ext", "alpha_ext_median", "alpha_ext_round",
     "nonfinite"}

\* (x_rot/a)^2 + (y_rot/b)^2 for the point (px, py)
EllipseForm(px, py, kw) ==
    LET x_c == RSub(px, kw.center_x)
        y_c == RSub(py, kw.center_y)
        xr == RAdd(RMul(x_c, kw.psi[1]), RMul(y_c, kw.psi[2]))
        yr == RSub(RMul(y_c, kw.psi[1]), RMul(x_c, kw.psi[2]))
    IN  RAdd(RSq(RDiv(xr, kw.a)), RSq(RDiv(yr, kw.b)))

ElliScalarCall(o, px, py) ==
    IF o = "function" THEN ElliSLICE_function(Scal(px), Scal(py), kwargs, ptype)
    ELSE ElliSLICE_derivatives(Scal(px), Scal(py), kwargs, ptype)

\* C1: a returned value of ElliSLICE.function or derivatives comes from the inside
\* branch exactly when (x_rot/a)^2 + (y_rot/b)^2 <= 1 at its point, from the
\* outside branch otherwise, and element i of an array result is the result of
\* the scalar call at (x[i], y[i]).
C1_BranchPerElement ==
    (pc = "done" /\ profile = "ElliSLICE" /\ op \in {"function", "derivatives"}
        /\ MatchedShapes /\ result.status = "return")
    => \A i \in 1..Len(x.v) : \A k \in 1..Len(result.out) :
          LET v == result.out[k][i]
              sc == ElliScalarCall(op, x.v[i], y.v[i])
          IN  /\ v.kind \in InsideKinds \cup OutsideKinds
              /\ v.kind \in InsideKinds <=> RLe(EllipseForm(x.v[i], y.v[i], kwargs), ROne)
              /\ ~x.scalar => (sc.status = "return" /\ sc.out[k][1] = v)

\* an array call whose first point is on the boundary of the ellipse and whose
\* second point is outside it has returned
C1_Witness ==
    /\ Done("ElliSLICE", "function")
    /\ ~x.scalar /\ Len(x.v) = 2 /\ Len(y.v) = 2
    /\ result.status = "return"
    /\ EllipseForm(x.v[1], y.v[1], kwargs) = ROne
    /\ RGt(EllipseForm(x.v[2], y.v[2], kwargs), ROne)

\* the potential of the class documentation at radius r
PiecewisePotential(r, theta_E, r_trunc) ==
    IF RLt(r, r_trunc) THEN RMul(theta_E, r)
    ELSE IF RLt(r, RAdd(r_trunc, r_trunc))
    THEN RMul(theta_E,
              RAdd(r_trunc,
                   RDiv(RMul(RSub(RMul(I(3), r_trunc), r), RSub(r, r_trunc)),
                        RMul(I(2), r_trunc))))
    ELSE RDiv(RMul(I(3), RMul(theta_E, r_trunc)), I(2))

\* C2: for a scalar coordinate SIS_truncate.function returns theta_E*r below
\* r_trunc, theta_E*r_trunc + 1/2*theta_E*(3 - r/r_trunc)*(r - r_trunc) from
\* r_trunc to 2*r_trunc, and 3/2*theta_E*r_trunc from 2*r_trunc on; with
\* theta_E = r_trunc = 1 that is 1/2 at r = 1/2, 11/8 at r = 3/2, 3/2 at r = 3.
C2_ScalarPotential ==
    (Done("SIS_truncate", "function") /\ x.scalar /\ y.scalar)
    => /\ result.status = "return"
       /\ result.scalar
       /\ result.out = <<<<PiecewisePotential(Radius(1), kwargs.theta_E, kwargs.r_trunc)>>>>
       /\ (kwargs.theta_E = I(1) /\ kwargs.r_trunc = I(1))
          => /\ Radius(1) = R(1, 2) => result.out[1][1] = R(1, 2)
             /\ Radius(1) = R(3, 2) => result.out[1][1] = R(11, 8)
             /\ Radius(1) = I(3) => result.out[1][1] = R(3, 2)

\* the scalar call with theta_E = r_trunc = 1 at r = 3/2 has returned 1.375
C2_Witness ==
    /\ Done("SIS_truncate", "function")
    /\ x.scalar /\ y.scalar
    /\ kwargs.theta_E = I(1) /\ kwargs.r_trunc = I(1)
    /\ Radius(1) = R(3, 2)
    /\ result.out = <<<<R(11, 8)>>>>

\* C3: element i of the array result of SIS_truncate.function is the result of
\* the scalar call at (x[i], y[i]), also at radius r_trunc and 2*r_trunc.
C3_ArrayEqualsScalar ==
    (Done("SIS_truncate", "function") /\ MatchedShapes /\ ~x.scalar
        /\ result.status = "return")
    => \A i \in 1..Len(x.v) :
          <<result.out[1][i]>> = SIS_function(Scal(x.v[i]), Scal(y.v[i]), kwargs).out[1]

\* C4: with a == b the deflection of a point outside the circle is the
\* simplified sigma_0*a^2*(x_, y_)/r^2, on the axes as off them.
C4_RoundUsesSimplified ==
    (Done("ElliSLICE", "derivatives") /\ x.scalar /\ y.scalar /\ kwargs.a = kwargs.b
        /\ RGt(R2(<<x.v[1], y.v[1]>>, kwargs.center_x, kwargs.center_y), RSq(kwargs.a)))
    => LET x_c == RSub(x.v[1], kwargs.center_x)
           y_c == RSub(y.v[1], kwargs.center_y)
           r2 == RAdd(RSq(x_c), RSq(y_c))
           k == RMul(kwargs.sigma_0, RSq(kwargs.a))
       IN  /\ result.status = "return"
           /\ result.out[1][1].kind = "alpha_ext_round"
           /\ result.out[1][1].val = <<RDiv(RMul(k, x_c), r2)>>
           /\ result.out[2][1].val = <<RDiv(RMul(k, y_c), r2)>>

\* C5: ElliSLICE.function returns a value for every coordinate and every
\* a >= b > 0, the circular case a == b included; it does not raise.
C5_FunctionTotal ==
    (Done("ElliSLICE", "function") /\ MatchedShapes) => result.status = "return"

\* C6: with r_trunc = 0 every operation of SIS_truncate returns, for scalar and
\* for array input; no division by r_trunc raises.
C6_TotalAtZeroTruncation ==
    (pc = "done" /\ profile = "SIS_truncate" /\ MatchedShapes /\ kwargs.r_trunc = RZero)
    => result.status = "return"

\* C7: SIS_truncate.hessian at (x, y) with center (center_x, center_y) equals
\* hessian at (x - center_x, y - center_y) with center (0, 0).
C7_HessianOfOffset ==
    (Done("SIS_truncate", "hessian") /\ x.scalar /\ y.scalar)
    => result = SIS_hessian(Scal(RSub(x.v[1], kwargs.center_x)),
                            Scal(RSub(y.v[1], kwargs.center_y)),
                            [kwargs EXCEPT !.center_x = RZero, !.center_y = RZero],
                            ptype)

OutputCount(o) == IF o = "function" THEN 1 ELSE IF o = "derivatives" THEN 2 ELSE 4

\* C8: every operation of both profiles returns, for an array of N >= 0
\* coordinate pairs, its outputs (1, 2, 4) each of length N, and scalars for a
\* scalar coordinate.  (Calls ending in ZeroDivisionError are the matter of C5
\* and C6.)
C8_ShapePreserved ==
    (pc = "done" /\ MatchedShapes /\ result.exc # "ZeroDivisionError")
    => /\ result.status = "return"
       /\ result.scalar = x.scalar
       /\ Len(result.out) = OutputCount(op)
       /\ \A k \in 1..Len(result.out) : Len(result.out[k]) = Len(x.v)

\* C9: when x and y differ in shape (arrays of two lengths, or a scalar and an
\* array) every operation of both profiles ends in an exception.
C9_MismatchRaises ==
    (pc = "done" /\ ~MatchedShapes) => result.status = "raise"

LimitLess(l, u) == RLe(l[1], u[1]) /\ RLe(l[2], u[2]) /\ l # u

\* C10: every name of param_names has a lower and an upper default limit, the
\* two mappings have the same keys, and each lower limit is below the upper one.
C10_LimitsComplete ==
    /\ \A i \in 1..Len(param_names(profile)) :
          /\ param_names(profile)[i] \in lower_limit_keys(profile)
          /\ param_names(profile)[i] \in upper_limit_keys(profile)
    /\ lower_limit_keys(profile) = upper_limit_keys(profile)
    /\ \A k \in lower_limit_keys(profile) :
          LimitLess(lower_limit_default(profile, k), upper_limit_default(profile, k))

\* C11: the second and the third component returned by SIS_truncate.hessian
\* (f_xy and f_yx) are the same value, for scalar and for array coordinates.
C11_CrossTermsEqual ==
    (Done("SIS_truncate", "hessian") /\ result.status = "return")
    => Len(result.out) = 4 /\ result.out[2] = result.out[3]

\* hessian has returned for an array with a cross term that is not zero
C11_Witness ==
    /\ Done("SIS_truncate", "hessian")
    /\ result.status = "return"
    /\ ~x.scalar /\ Len(x.v) = 2 /\ Len(y.v) = 2
    /\ \E i \in 1..2 : result.out[2][i] # RZero /\ result.out[3][i] # RZero
          /\ result.out[1][i] # result.out[2][i]

\* element i of the coordinates is the center of the profile
AtCenter(i) == x.v[i] = kwargs.center_x /\ y.v[i] = kwargs.center_y

\* C12: SIS_truncate.derivatives returns (0, 0) at the center of the profile, for
\* a scalar and for every such element of an array, whatever theta_E and r_trunc:
\* dphi/dr is 0 at r = 0 and dr/dx divides by 1 in place of r = 0.
C12_ZeroAtCenter ==
    (Done("SIS_truncate", "derivatives") /\ MatchedShapes)
    => /\ result.status = "return"
       /\ \A i \in 1..Len(x.v) :
             AtCenter(i)
             => /\ result.out[1][i] = RZero
                /\ result.out[2][i] = RZero
                /\ dphi_dr_scalar(Radius(i), kwargs.theta_E, kwargs.r_trunc) = RZero
                /\ dphi_dr_array(<<Radius(i)>>, kwargs.theta_E, kwargs.r_trunc) = <<RZero>>
                /\ dr_dx(RSub(x.v[i], kwargs.center_x), RSub(y.v[i], kwargs.center_y))
                      = <<RZero, RZero>>

\* derivatives has returned for an array whose first element is the center and
\* whose second element is deflected
C12_Witness ==
    /\ Done("SIS_truncate", "derivatives")
    /\ ~x.scalar /\ Len(x.v) = 2 /\ Len(y.v) = 2
    /\ AtCenter(1) /\ ~AtCenter(2)
    /\ result.status = "return"
    /\ result.out[1][1] = RZero /\ result.out[2][1] = RZero
    /\ result.out[1][2] # RZero

\* C13: with r_trunc > 0 the expressions of the first and of the second regime
\* of the SIS_truncate potential are both theta_E*r_trunc at r = r_trunc, the
\* expression of the second regime and the constant of the third are both
\* 3/2*theta_E*r_trunc at r = 2*r_trunc, and dphi/dr is theta_E on both sides of
\* r = r_trunc; the value function returns there is that common value.
C13_ContinuousAtBoundaries ==
    (pc = "done" /\ profile = "SIS_truncate" /\ op \in {"function", "derivatives"}
        /\ x.scalar /\ y.scalar /\ RGt(kwargs.r_trunc, RZero))
    => LET r == Radius(1)
           th == kwargs.theta_E
           rt == kwargs.r_trunc
       IN  /\ r = rt
              => /\ potential_inner(r, th) = RMul(th, rt)
                 /\ potential_blend(r, th, rt) = RMul(th, rt)
                 /\ dphi_inner(th) = th
                 /\ dphi_blend(r, th, rt) = th
                 /\ dphi_dr_scalar(r, th, rt) = th
                 /\ op = "function" => result.out = <<<<RMul(th, rt)>>>>
           /\ r = RMul(I(2), rt)
              => /\ potential_blend(r, th, rt) = RMul(R(3, 2), RMul(th, rt))
                 /\ potential_outer(th, rt) = RMul(R(3, 2), RMul(th, rt))
                 /\ op = "function" => result.out = <<<<RMul(R(3, 2), RMul(th, rt))>>>>

\* function has returned at a point of radius exactly 2*r_trunc > 0
C13_Witness ==
    /\ Done("SIS_truncate", "function")
    /\ x.scalar /\ y.scalar
    /\ RGt(kwargs.r_trunc, RZero)
    /\ Radius(1) = RMul(I(2), kwargs.r_trunc)
    /\ result.out = <<<<potential_outer(kwargs.theta_E, kwargs.r_trunc)>>>>

\* the outcome of operation o of profile p called alone on a fresh instance
CallAlone(p, o, xin, yin, kw, pt) ==
    IF p = "SIS_truncate"
    THEN (IF o = "function" THEN SIS_function(xin, yin, kw)
          ELSE IF o = "derivatives" THEN SIS_derivatives(xin, yin, kw)
          ELSE SIS_hessian(xin, yin, kw, pt))
    ELSE (IF o = "function" THEN ElliSLICE_function(xin, yin, kw, pt)
          ELSE IF o = "derivatives" THEN ElliSLICE_derivatives(xin, yin, kw, pt)
          ELSE ElliSLICE_hessian(xin, yin, kw, pt))

\* C14: a call of function, derivatives or hessian of either profile leaves the
\* caller's x and y, the parameter values and the instance as they were, and its
\* result is the one the same call gives alone on a fresh instance, wherever in
\* a sequence of calls it is made.
C14_Pure ==
    /\ [][calls' = calls + 1
          => /\ x' = x /\ y' = y
             /\ kwargs' = kwargs /\ ptype' = ptype
             /\ profile' = profile]_vars
    /\ [](calls > 0 => result \in Outcomes(CallAlone(profile, op, x, y, kwargs, ptype)))

\* a second call on the instance, hessian of SIS_truncate on arrays with an
\* element at the origin (where _dr_dx assigns r[r == 0] = 1), has returned
C14_Witness ==
    /\ calls = 2
    /\ Done("SIS_truncate", "hessian")
    /\ ~x.scalar /\ Len(x.v) = 2 /\ Len(y.v) = 2
    /\ x.v[1] = RZero /\ y.v[1] = RZero
    /\ result.status = "return"

\* the second radial derivative of the three regimes at radius r
SecondDerivativeRegimes(r, theta_E, r_trunc) ==
    IF RLt(r, r_trunc) THEN RZero
    ELSE IF RLt(r, RMul(I(2), r_trunc)) THEN RNeg(RDiv(theta_E, r_trunc))
    ELSE RZero

\* C16: the second radial derivative used by SIS_truncate.hessian is 0 below
\* r_trunc, -theta_E/r_trunc from r_trunc to 2*r_trunc and 0 from 2*r_trunc on,
\* in the scalar and in the array form, so that element i of an array result is
\* the result of the scalar call at (x[i], y[i]), also at radius r_trunc.
C16_SecondDerivativeForms ==
    (Done("SIS_truncate", "hessian") /\ MatchedShapes /\ result.status = "return")
    => \A i \in 1..Len(x.v) :
          /\ d2phi_dr2_scalar(Radius(i), kwargs.theta_E, kwargs.r_trunc)
                = SecondDerivativeRegimes(Radius(i), kwargs.theta_E, kwargs.r_trunc)
          /\ d2phi_dr2_array(<<Radius(i)>>, kwargs.theta_E, kwargs.r_trunc)
                = <<SecondDerivativeRegimes(Radius(i), kwargs.theta_E, kwargs.r_trunc)>>
          /\ ~x.scalar
             => \A k \in 1..4 :
                   <<result.out[k][i]>>
                     = SIS_hessian(Scal(x.v[i]), Scal(y.v[i]), kwargs, ptype).out[k]

\* the first radial derivative of the regimes at radius r
FirstDerivativeRegimes(r, theta_E, r_trunc) ==
    IF r = RZero THEN RZero
    ELSE IF RLt(r, r_trunc) THEN theta_E
    ELSE IF RLt(r, RMul(I(2), r_trunc))
    THEN RSub(RMul(I(2), theta_E), RDiv(RMul(theta_E, r), r_trunc))
    ELSE RZero

\* C17: dphi/dr of SIS_truncate is 0 at r = 0, theta_E for 0 < r < r_trunc,
\* theta_E*(2 - r/r_trunc) for r_trunc <= r < 2*r_trunc and 0 from 2*r_trunc on,
\* in the scalar and in the array form alike, and derivatives returns that
\* value times (x - center_x, y - center_y)/r.
C17_FirstDerivativeForms ==
    (Done("SIS_truncate", "derivatives") /\ MatchedShapes)
    => /\ result.status = "return"
       /\ \A i \in 1..Len(x.v) :
             LET d == FirstDerivativeRegimes(Radius(i), kwargs.theta_E, kwargs.r_trunc)
                 u == dr_dx(RSub(x.v[i], kwargs.center_x), RSub(y.v[i], kwargs.center_y))
             IN  /\ dphi_dr_scalar(Radius(i), kwargs.theta_E, kwargs.r_trunc) = d
                 /\ dphi_dr_array(<<Radius(i)>>, kwargs.theta_E, kwargs.r_trunc) = <<d>>
                 /\ result.out[1][i] = RMul(d, u[1])
                 /\ result.out[2][i] = RMul(d, u[2])

\* derivatives has returned for an array with one element at radius exactly
\* r_trunc > 0, deflected by theta_E, and one at radius 2*r_trunc, not deflected
C17_Witness ==
    /\ Done("SIS_truncate", "derivatives")
    /\ ~x.scalar /\ Len(x.v) = 2 /\ Len(y.v) = 2
    /\ RGt(kwargs.r_trunc, RZero)
    /\ Radius(1) = kwargs.r_trunc
    /\ Radius(2) = RMul(I(2), kwargs.r_trunc)
    /\ result.status = "return"
    /\ result.out[1][1] = kwargs.theta_E
    /\ result.out[1][2] = RZero /\ result.out[2][2] = RZero

\* v is component part of the deflection at the point pt, from the branch that
\* (x_rot/a)^2 + (y_rot/b)^2 <= 1 selects at pt
DeflectionAt(v, part, pt) ==
    /\ v.part = part
    /\ v.kind \in {"alpha_in", "alpha_ext", "alpha_ext_median", "alpha_ext_round", "nonfinite"}
    /\ v.kind = "alpha_in" <=> Inside(pt, kwargs)
    /\ v.kind # "nonfinite" => v.at = pt

\* the component and the displacement (in steps of diff) differenced by each
\* of the four outputs of hessian
HessianTerms ==
    <<[name |-> "f_xx", part |-> "real", dx |-> 1, dy |-> 0],
      [name |-> "f_xy", part |-> "real", dx |-> 0, dy |-> 1],
      [name |-> "f_yx", part |-> "imag", dx |-> 1, dy |-> 0],
      [name |-> "f_yy", part |-> "imag", dx |-> 0, dy |-> 1]>>

\* C19: ElliSLICE.hessian returns four forward differences with step
\* h = 1e-9 of the deflection: f_xx and f_yx difference alpha_x and alpha_y
\* between (x + h, y) and (x, y), f_xy and f_yy between (x, y + h) and (x, y),
\* and each deflection is from the branch its own point selects.
C19_ForwardDifference ==
    (Done("ElliSLICE", "hessian") /\ MatchedShapes /\ result.status = "return")
    => /\ Len(result.out) = 4
       /\ DiffExponent = 9
       /\ \A k \in 1..4 : \A i \in 1..Len(x.v) :
             LET v == result.out[k][i]
                 t == HessianTerms[k]
             IN  /\ v.kind = "forward_difference"
                 /\ v.part = t.name
                 /\ Len(v.args) = 2
                 /\ DeflectionAt(v.args[1], t.part, PointAt(x, y, i, t.dx, t.dy, kwargs))
                 /\ DeflectionAt(v.args[2], t.part, PointAt(x, y, i, 0, 0, kwargs))

\* hessian has returned at the end of an axis of an ellipse: (x, y) is on
\* the boundary and takes the inside branch, (x + h, y) and (x, y + h) take the
\* outside branch, the second on the axis
C19_Witness ==
    /\ Done("ElliSLICE", "hessian")
    /\ x.scalar /\ y.scalar
    /\ kwargs.a # kwargs.b
    /\ result.status = "return"
    /\ EllipseForm(x.v[1], y.v[1], kwargs) = ROne
    /\ result.out[1][1].args[1].kind = "alpha_ext"
    /\ result.out[1][1].args[2].kind = "alpha_in"
    /\ result.out[2][1].args[1].kind = "alpha_ext_median"

\* the exact value carried by a value of the outside branch: of the general
\* formula at the point itself, also under np.median
ExactAtPoint(v) ==
    IF v.kind \in {"alpha_ext_median", "pot_ext_median"} THEN v.args[3].val ELSE v.val

\* C15: on the boundary of an ellipse with a # b the outside branch gives the
\* value of the inside branch, for the potential and for both components of the
\* deflection; pot_in adds sigma_0*rE^2*(1 - e^2)*log(rE), rE = (a + b)/2, which
\* is the logarithmic term of pot_ext there.
C15_BoundaryContinuity ==
    (pc = "done" /\ profile = "ElliSLICE" /\ op \in {"function", "derivatives"}
        /\ x.scalar /\ y.scalar /\ kwargs.a # kwargs.b
        /\ EllipseForm(x.v[1], y.v[1], kwargs) = ROne)
    => LET pt == PointAt(x, y, 1, 0, 0, kwargs)
           ext == IF op = "function" THEN pot_ext(pt, kwargs, ptype).out
                  ELSE alpha_ext(pt, kwargs, ptype).out
           rE == RDiv(RAdd(kwargs.a, kwargs.b), I(2))
       IN  /\ result.status = "return"
           /\ Len(ext) = Len(result.out)
           /\ \A k \in 1..Len(result.out) :
                 /\ result.out[k][1].kind \in InsideKinds
                 /\ result.out[k][1].val # <<>>
                 /\ ~median_op(pt, kwargs) => ExactAtPoint(ext[k]) # <<>>
                 /\ ExactAtPoint(ext[k]) # <<>>
                    => ExactAtPoint(ext[k]) = result.out[k][1].val
           /\ op = "function"
              => /\ result.out[1][1].val[2]
                      = RMul(RMul(kwargs.sigma_0, RSq(rE)), RSub(ROne, RSq(Ecc(kwargs))))
                 /\ result.out[1][1].val[3] = rE

\* function has returned, from the inside branch, at a point of the boundary
\* off the axes of an ellipse rotated by psi with cos psi = 3/5, where pot_ext
\* has the same exact value
C15_Witness ==
    /\ Done("ElliSLICE", "function")
    /\ x.scalar /\ y.scalar
    /\ kwargs.a # kwargs.b /\ kwargs.psi = <<R(3, 5), R(4, 5)>>
    /\ EllipseForm(x.v[1], y.v[1], kwargs) = ROne
    /\ ~median_op(PointAt(x, y, 1, 0, 0, kwargs), kwargs)
    /\ result.status = "return"
    /\ result.out[1][1].kind = "pot_in"
    /\ pot_ext(PointAt(x, y, 1, 0, 0, kwargs), kwargs, ptype).out[1].kind = "pot_ext"
    /\ pot_ext(PointAt(x, y, 1, 0, 0, kwargs), kwargs, ptype).out[1].val
          = result.out[1][1].val

\* the scalar point of the call is outside the ellipse
ScalarOutside ==
    /\ x.scalar /\ y.scalar
    /\ RGt(EllipseForm(x.v[1], y.v[1], kwargs), ROne)

\* the point is on an axis of the ellipse: sin(phi - psi) = y_rot / r or
\* sin(phi - psi - pi/2) = -x_rot / r is 0 (no other point of the coordinate
\* grid is within 1e-10 of an axis)
OnAxis(pt, kw) == x_rot(pt, kw.psi)[1] = RZero \/ y_rot(pt, kw.psi)[1] = RZero

MedianKinds == {"alpha_ext_median", "pot_ext_median"}

\* C18: for a point outside the ellipse, alpha_ext and pot_ext take the median
\* of the general formula at angles phi - 1e-10, phi + 1e-10 and phi exactly
\* when the point is within 1e-10 (in the sine) of an axis, per component, and
\* such a point never ends in an error.
C18_MedianOnAxes ==
    (pc = "done" /\ profile = "ElliSLICE" /\ op \in {"function", "derivatives"}
        /\ ScalarOutside)
    => LET pt == PointAt(x, y, 1, 0, 0, kwargs)
       IN  /\ OnAxis(pt, kwargs) <=> median_op(pt, kwargs)
           /\ EpsExponent = 10
           /\ OnAxis(pt, kwargs)
              => /\ result.status = "return"
                 /\ \A k \in 1..Len(result.out) :
                       LET v == result.out[k][1]
                       IN  /\ v.kind \in MedianKinds
                           /\ Len(v.args) = 3
                           /\ v.args[1].at = Perturbed(pt, -1)
                           /\ v.args[2].at = Perturbed(pt, 1)
                           /\ v.args[3].at = Perturbed(pt, 0)
                           /\ \A j \in 1..3 :
                                 /\ v.args[j].kind \in {"alpha_ext", "pot_ext"}
                                 /\ v.args[j].part = v.part
           /\ (~OnAxis(pt, kwargs) /\ result.status = "return")
              => \A k \in 1..Len(result.out) : result.out[k][1].kind \notin MedianKinds

\* sign as specified
SignOf(re, im) == IF RGt(re, RZero) \/ (re = RZero /\ RGe(im, RZero)) THEN 1 ELSE -1

\* C20: sign returns +1 if Re(w) > 0 or (Re(w) = 0 and Im(w) >= 0) and -1
\* otherwise, so sign(0) = +1 and sign(-w) = -sign(w) for w # 0; checked on the
\* arguments zb * eipsi of alpha_ext and z * emipsi of pot_ext.
C20_SignTotal ==
    (pc = "done" /\ profile = "ElliSLICE" /\ op \in {"function", "derivatives"}
        /\ ScalarOutside)
    => LET pt == PointAt(x, y, 1, 0, 0, kwargs)
           z == <<pt[1], pt[2]>>
       IN  /\ sign(RZero, RZero) = 1
           /\ \A w \in {CMul(CConj(z), kwargs.psi), CMul(z, CConj(kwargs.psi))} :
                 /\ sign(w[1], w[2]) \in {1, -1}
                 /\ sign(w[1], w[2]) = SignOf(w[1], w[2])
                 /\ w # <<RZero, RZero>>
                    => sign(RNeg(w[1]), RNeg(w[2])) = -sign(w[1], w[2])

\* derivatives has returned at a point outside an ellipse with a # b where
\* zb * eipsi has real part 0 and a negative imaginary part: sign is -1 there
C20_Witness ==
    /\ Done("ElliSLICE", "derivatives")
    /\ ScalarOutside
    /\ kwargs.a # kwargs.b
    /\ result.status = "return"
    /\ LET w == CMul(CConj(<<RSub(x.v[1], kwargs.center_x), RSub(y.v[1], kwargs.center_y)>>),
                      kwargs.psi)
       IN  w[1] = RZero /\ RLt(w[2], RZero) /\ sign(w[1], w[2]) = -1

\* the flattened to_vary_names: position i of the ranges names the parameter
\* Flattened[i][2] of the lens model kwargs_lens[Flattened[i][1]]
Flattened ==
    [i \in 1..Len(to_vary_names[1]) |-> <<1, to_vary_names[1][i]>>]
    \o [i \in 1..Len(to_vary_names[2]) |-> <<2, to_vary_names[2][i]>>]

\* half-width of the reoptimize interval of a position
HalfWidth(pos) ==
    IF pos[1] = 1 /\ pos[2] \in {"theta_E", "center_x", "center_y"} THEN R(1, 1000)
    ELSE R(5, 1000)

\* the interval of a position without reoptimize
DefaultInterval(pos) ==
    IF pos[1] = 2 THEN <<R(-5, 100), R(5, 100)>>
    ELSE IF pos[2] = "theta_E" THEN <<R(7, 10), R(14, 10)>>
    ELSE IF pos[2] \in {"center_x", "center_y"} THEN <<R(-1, 100), R(1, 100)>>
    ELSE <<R(-1, 10), R(1, 10)>>

RangesReturned ==
    pc = "done" /\ profile \in Routines /\ op = "get_param_ranges"

\* C21: get_param_ranges of SIE_shear and of SPEP_shear returns a pair (low,
\* high) of lists of length 7 in the flattened to_vary_names order [theta_E,
\* center_x, center_y, e1, e2, shear e1, shear e2] with low[i] < high[i] at
\* every position in both modes; with reoptimize each interval is centered on
\* the current value of its parameter in kwargs_lens, with half-width 0.001 for
\* theta_E and the centers and 0.005 for the ellipticity and shear components;
\* no call changes kwargs_lens.
C21_ParamRanges ==
    /\ [](RangesReturned =>
            /\ result.status = "return"
            /\ Len(result.out) = 2
            /\ Len(Flattened) = 7
            /\ Len(result.out[1]) = 7 /\ Len(result.out[2]) = 7
            /\ \A i \in 1..7 :
                  LET low == result.out[1][i]
                      high == result.out[2][i]
                      current == kwargs[Flattened[i][1]][Flattened[i][2]]
                  IN  /\ RLt(low, high)
                      /\ x => /\ RAdd(low, high) = RAdd(current, current)
                              /\ RSub(high, low) = RAdd(HalfWidth(Flattened[i]),
                                                        HalfWidth(Flattened[i]))
                      /\ ~x => <<low, high>> = DefaultInterval(Flattened[i]))
    /\ [][kwargs' = kwargs]_vars

\* a second call on one instance, get_param_ranges with reoptimize, has returned
\* for a kwargs_lens whose ellipse and shear differ in e1 and in e2
C21_Witness ==
    /\ RangesReturned
    /\ x
    /\ calls = 2
    /\ result.status = "return"
    /\ kwargs[1].e1 # kwargs[2].e1
    /\ kwargs[1].e2 # kwargs[2].e2
    /\ kwargs[1].center_x # kwargs[1].center_y

====
